---- MODULE Spec2Model ----
(***************************************************************************)
(* hello-fresh-scrape: the command (main), the scrape of one page          *)
(* (ScrapeRecipes: the document scan of parseRecipeProps, then the walk    *)
(* over the decoded query entries) and the yield resolution                *)
(* (Recipes.YieldIDsToNames, ingredientName).                              *)
(*                                                                         *)
(* The HTTP body is a stream: the tokens of the document are drawn one at  *)
(* a time as z.Next() is called, and z records the tokens read so far.     *)
(* The JSON text carried by a text token is opaque until json.Unmarshal    *)
(* reads it; what it decodes to is drawn at that point.                    *)
(***************************************************************************)
EXTENDS Integers, Sequences, FiniteSets, TLC

\* ------------------------------------------------------------------ bounds

MaxTokens == 4      \* tokens of a document before its stream ends
MaxAttrs == 3       \* attributes of one tag
MaxQueries == 3     \* query entries of one envelope
MaxItems == 2       \* recipes in the items list of one query entry
MaxRecipes == 2     \* recipes of a batch handed to the resolver
MaxIngredients == 2 \* ingredients of one recipe
MaxYields == 2      \* yields of one recipe
MaxEntries == 2     \* IngredientYield entries of one yield

\* ----------------------------------------------------------------- helpers

\* the sequences over S of length n at most
SeqsUpTo(S, n) == UNION {[1..k -> S] : k \in 0..n}

NoRepeat(s) == \A i, j \in 1..Len(s) : i # j => s[i] # s[j]

Min(S) == CHOOSE x \in S : \A y \in S : x <= y

\* ------------------------------------------------------------------ errors

Nil == [type |-> "nil", arg |-> ""]
\* the tokenizer's error at the end of the stream
EOF == [type |-> "io.EOF", arg |-> ""]
\* the tokenizer's error when the reader fails
ReadErr == [type |-> "read error", arg |-> ""]
\* http.Get's error
GetErr == [type |-> "url.Error", arg |-> ""]
\* encoding/json: the text is not JSON
SyntaxError == [type |-> "json.SyntaxError", arg |-> ""]
\* encoding/json: a JSON value does not fit the Go value; arg is the struct decoded into
UnmarshalTypeError(struct) == [type |-> "json.UnmarshalTypeError", arg |-> struct]
\* the error of line 538, which no path returns
PropsNotFound == [type |-> "errors.New", arg |-> "recipe props data not found"]
\* the error of ingredientName
IDNotFound(id) == [type |-> "errors.New", arg |-> id]

\* ------------------------------------------------------------------ tokens

IdAttr == <<"id", "__NEXT_DATA__">>
TypeAttr == <<"type", "application/json">>
OtherAttr == <<"class", "x">>
AttrValues == {IdAttr, TypeAttr, OtherAttr}
\* attribute lists of a tag, in document order
AttrLists == {a \in SeqsUpTo(AttrValues, MaxAttrs) : NoRepeat(a)}

\* the opaque contents of text tokens
Texts == {"t1", "t2"}

StartTag(name, attrs) ==
    [type |-> "StartTagToken", name |-> name, attrs |-> attrs, text |-> ""]
SelfClosingTag(name, attrs) ==
    [type |-> "SelfClosingTagToken", name |-> name, attrs |-> attrs, text |-> ""]
EndTag(name) ==
    [type |-> "EndTagToken", name |-> name, attrs |-> <<>>, text |-> ""]
Text(t) ==
    [type |-> "TextToken", name |-> "", attrs |-> <<>>, text |-> t]
Comment ==
    [type |-> "CommentToken", name |-> "", attrs |-> <<>>, text |-> ""]

\* Script start tags with every attribute list, and two tags that carry the
\* sentinel's attributes without being a script start tag.
TagTokens ==
    {StartTag("script", a) : a \in AttrLists}
        \cup {StartTag("div", <<IdAttr, TypeAttr>>),
              SelfClosingTag("script", <<IdAttr, TypeAttr>>)}
TextTokens == {Text(t) : t \in Texts}
TokenValues ==
    TagTokens \cup TextTokens \cup {EndTag("script"), Comment}

\* A script tag puts the tokenizer in raw-text mode: the element's content
\* comes as one text token, or not at all when it is empty.
RawMode(read) ==
    /\ Len(read) > 0
    /\ read[Len(read)].type \in {"StartTagToken", "SelfClosingTagToken"}
    /\ read[Len(read)].name = "script"

\* The tokens z.Next() can return after the tokens in read; an ErrorToken is
\* always possible too. Text runs to the next tag, so no two text tokens
\* are adjacent.
NextTokens(read) ==
    IF Len(read) >= MaxTokens THEN {}
    ELSE IF RawMode(read) THEN TextTokens \cup {EndTag("script")}
    ELSE IF Len(read) > 0 /\ read[Len(read)].type = "TextToken"
         THEN TokenValues \ TextTokens
    ELSE TokenValues

\* z.Err() after an ErrorToken
StreamErrors == {EOF, ReadErr}

\* ----------------------------------------------------------------- scanner

\* Lines 526-535: whether a start tag sets isRecipeProps. TagAttr hands out
\* the attributes in document order; moreAttr tells whether one is left.
ArmsAnyPosition(tok) ==
    /\ tok.name = "script"
    /\ \E i, j \in 1..Len(tok.attrs) :
         tok.attrs[i] = IdAttr /\ tok.attrs[j] = TypeAttr

ArmsTypeFirst(tok) ==
    LET hasAttr == Len(tok.attrs) > 0
        moreAttr == Len(tok.attrs) > 1
    IN  /\ tok.name = "script"
        /\ hasAttr
        /\ tok.attrs[1] = TypeAttr
        /\ moreAttr
        /\ tok.attrs[2] = IdAttr

Arms(tok) ==
    LET hasAttr == Len(tok.attrs) > 0
        moreAttr == Len(tok.attrs) > 1
    IN  /\ tok.name = "script"
        /\ hasAttr
        /\ tok.attrs[1][1] = "id"
        /\ tok.attrs[1][2] = "__NEXT_DATA__"
        /\ moreAttr
        /\ tok.attrs[2][1] = "type"
        /\ tok.attrs[2][2] = "application/json"

\* Lines 521-524: whether a token ends the scan with its text as the result
ReturnsAnyText(tok, armed) == tok.type = "TextToken"

ReturnsText(tok, armed) == tok.type = "TextToken" /\ armed

\* ------------------------------------------------------------ recipe model

IngredientIDs == {"i1", "i2"}
IngredientNames == {"Egg", "i2"}

\* type Ingredient, with the fields the resolver reads
IngredientValues == [ID : IngredientIDs, Name : IngredientNames]
\* type IngredientYield; ID holds a reference before the resolution
IngredientYieldValues == [ID : IngredientIDs, Amount : {2}, Unit : {"pcs"}]
\* type Yield
YieldValues ==
    [Yields : {2}, Ingredients : SeqsUpTo(IngredientYieldValues, MaxEntries)]
\* type Recipe
RecipeValues ==
    [ID : {"r1"},
     Ingredients : {l \in SeqsUpTo(IngredientValues, MaxIngredients) : NoRepeat(l)},
     Yields : SeqsUpTo(YieldValues, MaxYields)]
\* type Recipes
Batches == SeqsUpTo(RecipeValues, MaxRecipes)

\* The recipes a page carries: one whose yield resolves, one whose yield
\* refers to an ingredient its recipe does not list.
ResolvableRecipe ==
    [ID |-> "r1",
     Ingredients |-> <<[ID |-> "i1", Name |-> "Egg"]>>,
     Yields |-> <<[Yields |-> 2,
                   Ingredients |-> <<[ID |-> "i1", Amount |-> 2, Unit |-> "pcs"]>>]>>]
DanglingRecipe ==
    [ID |-> "r2",
     Ingredients |-> <<[ID |-> "i1", Name |-> "Egg"]>>,
     Yields |-> <<[Yields |-> 2,
                   Ingredients |-> <<[ID |-> "i2", Amount |-> 2, Unit |-> "pcs"]>>]>>]
WireRecipes == {ResolvableRecipe, DanglingRecipe}

\* ----------------------------------------------------------------- payload

\* The raw Data of a query entry (json.RawMessage): the kind of JSON value
\* it holds, and for an object its items and whether they decode as
\* []Recipe. "absent" is an entry with no data field: the raw bytes are empty.
ObjectData(items) == [kind |-> "object", items |-> items, fits |-> TRUE]
\* an object whose items is no list of recipes, such as {"items": 5}
MisfitObjectData == [kind |-> "object", items |-> <<>>, fits |-> FALSE]
OtherData(kind) == [kind |-> kind, items |-> <<>>, fits |-> FALSE]
OtherKinds == {"array", "string", "number", "null", "absent"}

DataValues ==
    {ObjectData(items) : items \in SeqsUpTo(WireRecipes, MaxItems)}
        \cup {MisfitObjectData}
        \cup {OtherData(k) : k \in OtherKinds}

\* p.Props.PageProps.SSRPayload.DehydratedState.Queries, each entry its State.Data
QueryLists == SeqsUpTo(DataValues, MaxQueries)

\* The raw bytes of a Data start with the first byte of its JSON value;
\* "" stands for no byte at all.
FirstByte(d) ==
    CASE d.kind = "object" -> "{"
      [] d.kind = "array" -> "["
      [] d.kind = "string" -> "\""
      [] d.kind = "number" -> "1"
      [] d.kind = "null" -> "n"
      [] d.kind = "absent" -> ""

\* json.Unmarshal(q.State.Data, &d) with d a fresh data: a JSON null leaves d
\* as it is, an object fills Items, any other value does not fit a struct.
UnmarshalData(d) ==
    CASE d.kind = "object" /\ d.fits -> [Items |-> d.items, err |-> Nil]
      [] d.kind = "null" -> [Items |-> <<>>, err |-> Nil]
      [] d.kind = "absent" -> [Items |-> <<>>, err |-> SyntaxError]
      [] OTHER -> [Items |-> <<>>, err |-> UnmarshalTypeError("data")]

\* json.Unmarshal(b, &p): what the text b can turn out to hold
UnmarshalPayload ==
    {[Queries |-> <<>>, err |-> SyntaxError],
     [Queries |-> <<>>, err |-> UnmarshalTypeError("payload")]}
        \cup {[Queries |-> q, err |-> Nil] : q \in QueryLists}

\* Line 499: the test that lets a query entry be decoded
IsObject(d) == FirstByte(d) = "{"

\* Line 503: the result returned beside a query entry's decode error
KeepAccumulated(acc) == acc

ResultOnError(acc) == <<>>

\* Lines 505-507
AppendItemsReversed(rs, items) == items \o rs

AppendItems(rs, items) == IF Len(items) > 0 THEN rs \o items ELSE rs

\* ---------------------------------------------------------------- resolver

\* ingredientName, lines 558-565
ChasingIngredientName(id, ingreds) ==
    LET First(x) == CHOOSE k \in 1..Len(ingreds) :
                        /\ ingreds[k].ID = x
                        /\ \A j \in 1..(k - 1) : ingreds[j].ID # x
        Has(x) == \E k \in 1..Len(ingreds) : ingreds[k].ID = x
    IN  IF ~Has(id) THEN [name |-> "", err |-> IDNotFound(id)]
        ELSE IF Has(ingreds[First(id)].Name)
        THEN [name |-> ingreds[First(ingreds[First(id)].Name)].Name, err |-> Nil]
        ELSE [name |-> ingreds[First(id)].Name, err |-> Nil]

LastIngredientName(id, ingreds) ==
    LET hits == {k \in 1..Len(ingreds) : ingreds[k].ID = id}
    IN  IF hits = {} THEN [name |-> "", err |-> IDNotFound(id)]
        ELSE [name |-> ingreds[CHOOSE k \in hits : \A h \in hits : h <= k].Name,
              err |-> Nil]

ingredientName(id, ingreds) ==
    LET hits == {k \in 1..Len(ingreds) : ingreds[k].ID = id}
    IN  IF hits = {} THEN [name |-> "", err |-> IDNotFound(id)]
        ELSE [name |-> ingreds[Min(hits)].Name, err |-> Nil]

\* Line 551: ys.Ingredients[i].ID = name
SetEntry(entries, i, name) ==
    [entries EXCEPT ![i] = [ID |-> name, Amount |-> 0, Unit |-> ""]]

SetID(entries, i, name) == [entries EXCEPT ![i].ID = name]

\* Lines 546-552: the entries of one yield, from entry i on
RECURSIVE ResolveEntries(_, _, _)
ResolveEntries(ingreds, entries, i) ==
    IF i > Len(entries) THEN [val |-> entries, err |-> Nil]
    ELSE LET found == ingredientName(entries[i].ID, ingreds)
         IN  IF found.err # Nil THEN [val |-> entries, err |-> found.err]
             ELSE ResolveEntries(ingreds, SetID(entries, i, found.name), i + 1)

\* Lines 545-553: the yields of one recipe, from yield y on
RECURSIVE ResolveYields(_, _, _)
ResolveYields(ingreds, yields, y) ==
    IF y > Len(yields) THEN [val |-> yields, err |-> Nil]
    ELSE LET done == ResolveEntries(ingreds, yields[y].Ingredients, 1)
             next == [yields EXCEPT ![y].Ingredients = done.val]
         IN  IF done.err # Nil THEN [val |-> next, err |-> done.err]
             ELSE ResolveYields(ingreds, next, y + 1)

\* The ingredient list a recipe's yields are resolved against (line 547)
AllIngredients(batch, r) ==
    LET RECURSIVE Cat(_)
        Cat(k) == IF k > Len(batch) THEN <<>>
                  ELSE batch[k].Ingredients \o Cat(k + 1)
    IN  batch[r].Ingredients \o Cat(1)

OwnIngredients(batch, r) == batch[r].Ingredients

\* Lines 544-555: the recipes of the batch, from recipe r on
RECURSIVE UndoingResolveRecipes(_, _)
UndoingResolveRecipes(batch, r) ==
    IF r > Len(batch) THEN [val |-> batch, err |-> Nil]
    ELSE LET done == ResolveYields(OwnIngredients(batch, r), batch[r].Yields, 1)
             next == [batch EXCEPT ![r].Yields = done.val]
         IN  IF done.err # Nil THEN [val |-> batch, err |-> done.err]
             ELSE UndoingResolveRecipes(next, r + 1)

RECURSIVE ResolveRecipes(_, _)
ResolveRecipes(batch, r) ==
    IF r > Len(batch) THEN [val |-> batch, err |-> Nil]
    ELSE LET done == ResolveYields(OwnIngredients(batch, r), batch[r].Yields, 1)
             next == [batch EXCEPT ![r].Yields = done.val]
         IN  IF done.err # Nil THEN [val |-> next, err |-> done.err]
             ELSE ResolveRecipes(next, r + 1)

\* Recipes.YieldIDsToNames, lines 543-556
YieldIDsToNames(batch) == ResolveRecipes(batch, 1)

\* -------------------------------------------------------------------- main

recipeHomePage == "https://www.hellofresh.com/recipes"
collectionPage == "https://www.hellofresh.com/recipes/easy-recipes"
\* the values of the -p flag
Pages == {"", recipeHomePage, collectionPage}

\* main's data: nothing yet, the collections of -l, or the batch serialized
NoData == [kind |-> "none", recipes |-> <<>>]
CollectionsData == [kind |-> "collections", recipes |-> <<>>]
\* json.MarshalIndent(rs, "", "\t")
MarshalIndent(batch) == [kind |-> "recipes", recipes |-> batch]
\* what reached the file when output.Write or output.Flush failed midway
Partial(d) == [kind |-> "partial", recipes |-> d.recipes]

VARIABLES
    pc,              \* where the run is
    listFlag,        \* -l
    recipePage,      \* -p
    yieldIDsToNames, \* -y
    data,            \* main's data
    written,         \* the bytes that reached the output
    stages,          \* the stages the run has entered, in order
    z,               \* the tokens z.Next() has returned
    isRecipeProps,   \* parseRecipeProps' flag
    b,               \* the bytes parseRecipeProps returns
    err,             \* the error last returned
    p,               \* the Queries of the decoded payload
    qi,              \* the query entry the loop of ScrapeRecipes is at
    rs,              \* the recipes: ScrapeRecipes' result, main's batch
    rs0,             \* the batch as it was when YieldIDsToNames was called
    cause            \* why ScrapeRecipes failed, when it did

vars == <<pc, listFlag, recipePage, yieldIDsToNames, data, written, stages,
          z, isRecipeProps, b, err, p, qi, rs, rs0, cause>>

flags == <<listFlag, yieldIDsToNames>>
scanVars == <<z, isRecipeProps, b>>
navVars == <<p, qi>>
outVars == <<data, written>>

Locals ==
    /\ z = <<>>
    /\ isRecipeProps = FALSE
    /\ b = ""
    /\ err = Nil
    /\ p = <<>>
    /\ qi = 1
    /\ rs = <<>>
    /\ rs0 = <<>>
    /\ cause = "none"
    /\ data = NoData
    /\ written = NoData

\* The command starts with its flags parsed (line 51).
Init ==
    /\ pc = "main"
    /\ listFlag \in BOOLEAN
    /\ recipePage \in Pages
    /\ yieldIDsToNames \in BOOLEAN
    /\ stages = <<>>
    /\ Locals

\* Lines 52-66: the flags that exclude each other, and the output file.
MainStart ==
    /\ pc = "main"
    /\ \E created \in BOOLEAN :
         pc' = IF listFlag /\ recipePage # "" THEN "fatal"
               ELSE IF listFlag /\ yieldIDsToNames THEN "fatal"
               ELSE IF ~created THEN "fatal"
               ELSE IF listFlag THEN "list"
               ELSE "validate"
    /\ UNCHANGED <<flags, recipePage, outVars, stages, scanVars, err, navVars,
                   rs, rs0, cause>>

\* Lines 68-75: -l, the collections.
MainList ==
    /\ pc = "list"
    /\ stages' = Append(stages, "list")
    /\ \E ok \in BOOLEAN :
         IF ok THEN /\ data' = CollectionsData
                    /\ pc' = "write"
         ELSE /\ data' = data
              /\ pc' = "fatal"
    /\ UNCHANGED <<flags, recipePage, written, scanVars, err, navVars, rs, rs0,
                   cause>>

\* Lines 77-87: the page defaults to the home page; any other page is
\* checked with recipe.IsValidPage.
MainValidate ==
    /\ pc = "validate"
    /\ IF recipePage = ""
       THEN /\ recipePage' = recipeHomePage
            /\ pc' = "scrape"
            /\ stages' = stages
       ELSE IF recipePage # recipeHomePage
       THEN /\ recipePage' = recipePage
            /\ stages' = Append(stages, "validate")
            /\ \E isValid \in BOOLEAN, failed \in BOOLEAN :
                 pc' = IF failed \/ ~isValid THEN "fatal" ELSE "scrape"
       ELSE /\ recipePage' = recipePage
            /\ pc' = "scrape"
            /\ stages' = stages
    /\ UNCHANGED <<flags, outVars, scanVars, err, navVars, rs, rs0, cause>>

\* Lines 482-487: ScrapeRecipes gets the page and hands its body to
\* parseRecipeProps (lines 514-515).
ScrapeGet ==
    /\ pc = "scrape"
    /\ stages' = Append(stages, "scrape")
    /\ \E ok \in BOOLEAN :
         IF ok THEN /\ pc' = "scan"
                    /\ err' = Nil
                    /\ cause' = cause
         ELSE /\ pc' = "scraped"
              /\ err' = GetErr
              /\ cause' = "get"
    /\ z' = <<>>
    /\ isRecipeProps' = FALSE
    /\ UNCHANGED <<flags, recipePage, outVars, b, navVars, rs, rs0>>

\* Lines 516-536: one turn of parseRecipeProps' loop.
ScanNext ==
    /\ pc = "scan"
    /\ \/ \E e \in StreamErrors :
            \* html.ErrorToken
            /\ b' = ""
            /\ err' = e
            /\ pc' = "scanned"
            /\ cause' = IF e = EOF THEN "sentinel not found" ELSE "stream"
            /\ UNCHANGED <<z, isRecipeProps>>
       \/ \E tok \in NextTokens(z) :
            /\ z' = Append(z, tok)
            /\ cause' = cause
            /\ IF ReturnsText(tok, isRecipeProps)
               THEN /\ b' = tok.text
                    /\ err' = Nil
                    /\ pc' = "scanned"
                    /\ UNCHANGED isRecipeProps
               ELSE /\ isRecipeProps' =
                         IF tok.type = "StartTagToken" /\ Arms(tok)
                         THEN TRUE ELSE isRecipeProps
                    /\ UNCHANGED <<b, err, pc>>
    /\ UNCHANGED <<flags, recipePage, outVars, stages, navVars, rs, rs0>>

\* Lines 487, 520, 523: parseRecipeProps hands b and err to ScrapeRecipes;
\* its tokenizer and its flag are gone.
ScanReturn ==
    /\ pc = "scanned"
    /\ pc' = "decode"
    /\ z' = <<>>
    /\ isRecipeProps' = FALSE
    /\ UNCHANGED <<flags, recipePage, outVars, stages, b, err, navVars, rs, rs0,
                   cause>>

\* Lines 488-496: the payload is decoded.
ScrapeDecode ==
    /\ pc = "decode"
    /\ IF err # Nil
       THEN /\ pc' = "scraped"
            /\ UNCHANGED <<err, p, cause>>
       ELSE \E out \in UnmarshalPayload :
              /\ err' = out.err
              /\ p' = out.Queries
              /\ pc' = IF out.err # Nil THEN "scraped" ELSE "navigate"
              /\ cause' = IF out.err # Nil THEN "envelope" ELSE cause
    /\ qi' = 1
    /\ rs' = <<>>
    /\ UNCHANGED <<flags, recipePage, outVars, stages, scanVars, rs0>>

\* Lines 497-509: one turn of the loop over the query entries. Data[0] of
\* an entry without data is an index out of range, a panic.
ScrapeQuery ==
    /\ pc = "navigate"
    /\ qi <= Len(p)
    /\ LET Data == p[qi]
           d == UnmarshalData(Data)
       IN  IF FirstByte(Data) = ""
           THEN /\ pc' = "panic"
                /\ UNCHANGED <<err, rs, qi, cause>>
           ELSE IF IsObject(Data)
           THEN IF d.err # Nil
                THEN /\ pc' = "scraped"
                     /\ err' = d.err
                     /\ rs' = ResultOnError(rs)
                     /\ cause' = "query"
                     /\ UNCHANGED qi
                ELSE /\ rs' = AppendItems(rs, d.Items)
                     /\ qi' = qi + 1
                     /\ UNCHANGED <<pc, err, cause>>
           ELSE /\ qi' = qi + 1
                /\ UNCHANGED <<pc, err, rs, cause>>
    /\ UNCHANGED <<flags, recipePage, outVars, stages, scanVars, p, rs0>>

\* Line 510
ScrapeReturn ==
    /\ pc = "navigate"
    /\ qi > Len(p)
    /\ pc' = "scraped"
    /\ UNCHANGED <<flags, recipePage, outVars, stages, scanVars, err, navVars,
                   rs, rs0, cause>>

\* Line 92: whether main calls the resolver
ResolverAlways == TRUE

ResolverWanted == yieldIDsToNames

\* Lines 89-97: ScrapeRecipes has returned, its b and p are gone; with -y the
\* batch is resolved.
MainResolve ==
    /\ pc = "scraped"
    /\ IF err # Nil
       THEN /\ pc' = "fatal"
            /\ UNCHANGED <<err, rs, rs0, stages>>
       ELSE IF ResolverWanted
       THEN LET done == YieldIDsToNames(rs)
            IN  /\ rs0' = rs
                /\ rs' = done.val
                /\ err' = done.err
                /\ pc' = IF done.err # Nil THEN "fatal" ELSE "marshal"
                /\ stages' = Append(stages, "resolve")
       ELSE /\ pc' = "marshal"
            /\ UNCHANGED <<err, rs, rs0, stages>>
    /\ b' = ""
    /\ p' = <<>>
    /\ qi' = 1
    /\ UNCHANGED <<flags, recipePage, outVars, z, isRecipeProps, cause>>

\* Lines 98-101. No batch decoded from JSON fails to serialize.
MainMarshal ==
    /\ pc = "marshal"
    /\ data' = MarshalIndent(rs)
    /\ pc' = "write"
    /\ stages' = Append(stages, "serialize")
    /\ UNCHANGED <<flags, recipePage, written, scanVars, err, navVars, rs, rs0,
                   cause>>

\* Lines 103-110: output.Write and output.Flush.
MainWrite ==
    /\ pc = "write"
    /\ stages' = Append(stages, "write")
    /\ \E outcome \in {"ok", "failed", "failed midway"} :
         /\ pc' = IF outcome = "ok" THEN "exit" ELSE "fatal"
         /\ written' = CASE outcome = "ok" -> data
                         [] outcome = "failed" -> written
                         [] outcome = "failed midway" -> Partial(data)
    /\ UNCHANGED <<flags, recipePage, data, scanVars, err, navVars, rs, rs0,
                   cause>>

Next ==
    \/ MainStart
    \/ MainList
    \/ MainValidate
    \/ ScrapeGet
    \/ ScanNext
    \/ ScanReturn
    \/ ScrapeDecode
    \/ ScrapeQuery
    \/ ScrapeReturn
    \/ MainResolve
    \/ MainMarshal
    \/ MainWrite

Spec == Init /\ [][Next]_vars

\* The resolver on its own: ScrapeRecipes has returned any batch, and -y is set.
InitYield ==
    /\ pc = "scraped"
    /\ listFlag = FALSE
    /\ recipePage = recipeHomePage
    /\ yieldIDsToNames = TRUE
    /\ stages = <<"scrape">>
    /\ z = <<>>
    /\ isRecipeProps = FALSE
    /\ b = ""
    /\ err = Nil
    /\ p = <<>>
    /\ qi = 1
    /\ rs \in Batches
    /\ rs0 = <<>>
    /\ cause = "none"
    /\ data = NoData
    /\ written = NoData

NextYield == MainResolve

SpecYield == InitYield /\ [][NextYield]_vars

\* The calls of YieldIDsToNames made so far
Resolves == Cardinality({k \in 1..Len(stages) : stages[k] = "resolve"})

\* Lines 543-556 called once more by a caller that holds the batch of a
\* call that succeeded.
ResolveAgain ==
    /\ pc = "marshal"
    /\ Resolves = 1
    /\ LET done == YieldIDsToNames(rs)
       IN  /\ rs0' = rs
           /\ rs' = done.val
           /\ err' = done.err
           /\ pc' = IF done.err # Nil THEN "fatal" ELSE "marshal"
           /\ stages' = Append(stages, "resolve")
    /\ UNCHANGED <<flags, recipePage, outVars, scanVars, navVars, cause>>

NextTwice == MainResolve \/ ResolveAgain

SpecTwice == InitYield /\ [][NextTwice]_vars

\* ================================================================== claims

\* ---------------------------------------------------------- Document Scanner

\* A start tag of a script element that carries both attributes of the
\* sentinel, wherever they stand among its attributes
CarriesBoth(tok) ==
    /\ tok.type = "StartTagToken"
    /\ tok.name = "script"
    /\ \E i, j \in 1..Len(tok.attrs) :
         tok.attrs[i] = IdAttr /\ tok.attrs[j] = TypeAttr

\* A start tag of a script element whose first attribute is the sentinel's id
\* and whose second is its type
CarriesFirst(tok) ==
    /\ tok.type = "StartTagToken"
    /\ tok.name = "script"
    /\ Len(tok.attrs) >= 2
    /\ tok.attrs[1] = IdAttr
    /\ tok.attrs[2] = TypeAttr

\* The text content of the element that token i of the document opens
ElementText(read, i) ==
    IF i < Len(read) /\ read[i + 1].type = "TextToken"
    THEN read[i + 1].text ELSE ""

FirstSentinels == {i \in 1..Len(z) : CarriesFirst(z[i])}

\* C1 as stated: when the document holds a script element with both
\* attributes and its stream did not fail, the Scanner returns the text
\* content of such an element.
C1_AsStated ==
    (/\ pc = "scanned"
     /\ err # ReadErr
     /\ \E i \in 1..Len(z) : CarriesBoth(z[i]))
        => /\ err = Nil
           /\ \E i \in 1..Len(z) : CarriesBoth(z[i]) /\ b = ElementText(z, i)

\* C1, amended: when the first script start tag whose first attribute is
\* id="__NEXT_DATA__" and whose second is type="application/json" is directly
\* followed by a text token, the scan ends there and returns exactly that
\* text, whatever tokens come before it.
C1_SentinelText ==
    (/\ FirstSentinels # {}
     /\ Min(FirstSentinels) < Len(z)
     /\ z[Min(FirstSentinels) + 1].type = "TextToken")
        => /\ pc = "scanned"
           /\ err = Nil
           /\ b = z[Min(FirstSentinels) + 1].text

\* C1's case: another script element with its own text, then the sentinel
\* element, whose text is returned.
C1_Witness ==
    /\ pc = "scanned"
    /\ err = Nil
    /\ Len(z) = 4
    /\ z[1] = StartTag("script", <<TypeAttr>>)
    /\ z[2] = Text("t1")
    /\ CarriesFirst(z[3])
    /\ z[4] = Text("t2")
    /\ b = "t2"

\* C2 as stated: when the stream did not fail and the document holds no
\* sentinel start tag, the Scanner returns no bytes and the "not found" error.
C2_AsStated ==
    (/\ pc = "scanned"
     /\ err # ReadErr
     /\ FirstSentinels = {})
        => /\ b = ""
           /\ err = PropsNotFound

\* C10: the flag is set exactly when a script start tag with the id as first
\* and the type as second attribute has been read; no other token sets it.
C10_ArmedByFirstTwo ==
    isRecipeProps <=> FirstSentinels # {}

\* C10's case: script start tags carrying both attributes in other positions
\* have been read and the flag is still unset.
C10_Witness ==
    /\ pc = "scan"
    /\ Len(z) = 3
    /\ z[1] = StartTag("script", <<TypeAttr, IdAttr>>)
    /\ z[3] = StartTag("script", <<IdAttr, OtherAttr, TypeAttr>>)
    /\ ~isRecipeProps

\* The text tokens read after the first arming start tag
TextsAfterArming ==
    {i \in 1..Len(z) :
        /\ z[i].type = "TextToken"
        /\ FirstSentinels # {}
        /\ i > Min(FirstSentinels)}

\* C11 as stated: the bytes returned are those of the text token that stands
\* directly behind the matching start tag.
C11_AsStated ==
    (pc = "scanned" /\ err = Nil)
        => /\ Len(z) >= 2
           /\ CarriesFirst(z[Len(z) - 1])
           /\ b = z[Len(z)].text

\* C11, amended: the bytes returned are those of the first text token read
\* after the first arming start tag, whatever tokens other than text stand
\* between the two; text read before arming is never returned; the flag, once
\* set, stays set; so the scan goes on exactly while no text token has come
\* after arming, and otherwise ends with a stream error and no bytes.
C11_FirstTextAfterArming ==
    /\ pc \in {"scan", "scanned"} => (isRecipeProps <=> FirstSentinels # {})
    /\ pc = "scan" => TextsAfterArming = {}
    /\ (pc = "scanned" /\ err = Nil)
           => /\ TextsAfterArming = {Len(z)}
              /\ b = z[Len(z)].text
    /\ (pc = "scanned" /\ err # Nil)
           => /\ TextsAfterArming = {}
              /\ err \in StreamErrors
              /\ b = ""

\* C11's case: text before arming, an empty sentinel element, and the text
\* behind its end tag returned.
C11_Witness ==
    /\ pc = "scanned"
    /\ err = Nil
    /\ Len(z) = 4
    /\ z[1] = Text("t1")
    /\ CarriesFirst(z[2])
    /\ z[3] = EndTag("script")
    /\ z[4] = Text("t2")
    /\ b = "t2"

\* --------------------------------------------------------- Payload Navigator

\* The items list of a query entry whose data is a JSON object
ObjectItems(d) == IF d.kind = "object" THEN d.items ELSE <<>>

RECURSIVE ConcatItems(_, _)
ConcatItems(queries, k) ==
    IF k > Len(queries) THEN <<>>
    ELSE ObjectItems(queries[k]) \o ConcatItems(queries, k + 1)

RECURSIVE SumItems(_, _)
SumItems(queries, k) ==
    IF k > Len(queries) THEN 0
    ELSE Len(ObjectItems(queries[k])) + SumItems(queries, k + 1)

ScrapeSucceeded == pc = "scraped" /\ err = Nil

\* C3: the result of a successful scrape is the items lists of the
\* object-shaped query entries, concatenated in query order; nothing is
\* dropped or added, so its length is the sum of their lengths.
C3_Concatenation ==
    ScrapeSucceeded
        => /\ rs = ConcatItems(p, 1)
           /\ Len(rs) = SumItems(p, 1)

\* C3's case: two object entries around an array entry, one recipe twice.
C3_Witness ==
    /\ ScrapeSucceeded
    /\ p = <<ObjectData(<<ResolvableRecipe, DanglingRecipe>>),
             OtherData("array"),
             ObjectData(<<ResolvableRecipe>>)>>
    /\ rs = <<ResolvableRecipe, DanglingRecipe, ResolvableRecipe>>

Misfit(d) == d.kind = "object" /\ ~d.fits

DecodeErrors ==
    {SyntaxError, UnmarshalTypeError("payload"), UnmarshalTypeError("data")}

\* C7: a decode error of the envelope or of an object-shaped query entry
\* comes with an empty result, and the loop never goes past an object-shaped
\* entry that does not decode: a scrape that succeeds met none.
C7_AllOrNothing ==
    /\ (pc = "scraped" /\ err \in DecodeErrors) => rs = <<>>
    /\ pc = "navigate" => \A k \in 1..(qi - 1) : ~Misfit(p[k])
    /\ ScrapeSucceeded => \A k \in 1..Len(p) : ~Misfit(p[k])
    /\ (pc = "scraped" /\ \E k \in 1..Len(p) : Misfit(p[k]))
           => err = UnmarshalTypeError("data")

\* C7's case: recipes were accumulated from the first entry when the second
\* failed to decode, and the result is empty.
C7_Witness ==
    /\ pc = "scraped"
    /\ err = UnmarshalTypeError("data")
    /\ Len(p) >= 2
    /\ p[1] = ObjectData(<<ResolvableRecipe>>)
    /\ Misfit(p[2])
    /\ rs = <<>>

\* C12 as stated: the loop over the query entries never ends at an entry
\* whose data does not begin with '{', be it by an error or by a panic.
C12_AsStated ==
    (\/ pc = "panic"
     \/ pc = "scraped" /\ cause = "query")
        => /\ qi <= Len(p)
           /\ IsObject(p[qi])

\* The failure an error value tells its caller of. The tokenizer's errors,
\* the end of the stream among them, are stream errors.
ErrKind(e) ==
    CASE e \in StreamErrors -> "stream"
      [] e = PropsNotFound -> "sentinel not found"
      [] e \in {SyntaxError, UnmarshalTypeError("payload")} -> "envelope"
      [] e = UnmarshalTypeError("data") -> "query"
      [] e = GetErr -> "get"
      [] OTHER -> "none"

\* C8 as stated: the error ScrapeRecipes returns tells which failure it was.
C8_AsStated ==
    (pc = "scraped" /\ err # Nil) => ErrKind(err) = cause

\* ------------------------------------------------------------------ command

Range(s) == {s[i] : i \in 1..Len(s)}

StageRank(s) ==
    CASE s = "validate" -> 1
      [] s = "scrape" -> 2
      [] s = "resolve" -> 3
      [] s = "serialize" -> 4
      [] s = "write" -> 5
      [] OTHER -> 0

FullRun ==
    (IF recipePage = collectionPage THEN <<"validate">> ELSE <<>>)
        \o <<"scrape">>
        \o (IF yieldIDsToNames THEN <<"resolve">> ELSE <<>>)
        \o <<"serialize", "write">>

Positions(batch) ==
    UNION {UNION {{<<r, y, i>> : i \in 1..Len(batch[r].Yields[y].Ingredients)} :
                  y \in 1..Len(batch[r].Yields)} :
           r \in 1..Len(batch)}

EntryAt(batch, q) == batch[q[1]].Yields[q[2]].Ingredients[q[3]]

\* The order the resolver visits the entries in
Before(a, c) ==
    \/ a[1] < c[1]
    \/ a[1] = c[1] /\ a[2] < c[2]
    \/ a[1] = c[1] /\ a[2] = c[2] /\ a[3] < c[3]

IDsOf(ingreds) == {ingreds[k].ID : k \in 1..Len(ingreds)}

\* name is the Name of the first ingredient of ingreds whose ID is id
IsFirstName(name, id, ingreds) ==
    \E k \in 1..Len(ingreds) :
        /\ ingreds[k].ID = id
        /\ ingreds[k].Name = name
        /\ \A j \in 1..(k - 1) : ingreds[j].ID # id

\* The entries whose ID no ingredient of their own recipe has
Dangling(batch) ==
    {q \in Positions(batch) :
        EntryAt(batch, q).ID \notin IDsOf(batch[q[1]].Ingredients)}

SameShape(a, c) ==
    /\ Len(a) = Len(c)
    /\ \A r \in 1..Len(a) :
         /\ Len(a[r].Yields) = Len(c[r].Yields)
         /\ \A y \in 1..Len(a[r].Yields) :
              Len(a[r].Yields[y].Ingredients) = Len(c[r].Yields[y].Ingredients)

ResolverRan == "resolve" \in Range(stages)

\* C4: when every entry's ID is the ID of an ingredient of its own recipe,
\* the call succeeds and every entry holds the Name of the first such
\* ingredient, its Amount and Unit as before.
C4_AllResolved ==
    (ResolverRan /\ Dangling(rs0) = {})
        => /\ err = Nil
           /\ SameShape(rs, rs0)
           /\ \A q \in Positions(rs0) :
                /\ IsFirstName(EntryAt(rs, q).ID, EntryAt(rs0, q).ID,
                               rs0[q[1]].Ingredients)
                /\ EntryAt(rs, q).Amount = EntryAt(rs0, q).Amount
                /\ EntryAt(rs, q).Unit = EntryAt(rs0, q).Unit

\* C4's case: two ingredients share the ID the entry refers to; the entry
\* gets the Name of the first.
C4_Witness ==
    /\ ResolverRan
    /\ err = Nil
    /\ Len(rs0) = 1
    /\ rs0[1].Ingredients = <<[ID |-> "i1", Name |-> "Egg"],
                              [ID |-> "i1", Name |-> "i2"]>>
    /\ rs0[1].Yields = <<[Yields |-> 2,
                          Ingredients |-> <<[ID |-> "i1", Amount |-> 2,
                                             Unit |-> "pcs"]>>]>>
    /\ rs[1].Yields[1].Ingredients[1] = [ID |-> "Egg", Amount |-> 2, Unit |-> "pcs"]

FirstDangling(batch) ==
    CHOOSE f \in Dangling(batch) :
        \A g \in Dangling(batch) : f = g \/ Before(f, g)

\* C5: when some entry's ID is no ingredient's of its own recipe, the call
\* fails with the error naming the ID of the first such entry; the entries
\* before it hold their resolved names, it and the entries after it their
\* original IDs.
C5_StopsAtFirstDangling ==
    (ResolverRan /\ Dangling(rs0) # {})
        => LET f == FirstDangling(rs0)
           IN  /\ pc = "fatal"
               /\ err = IDNotFound(EntryAt(rs0, f).ID)
               /\ SameShape(rs, rs0)
               /\ \A q \in Positions(rs0) :
                    IF Before(q, f)
                    THEN IsFirstName(EntryAt(rs, q).ID, EntryAt(rs0, q).ID,
                                     rs0[q[1]].Ingredients)
                    ELSE EntryAt(rs, q).ID = EntryAt(rs0, q).ID

\* C5's case: the first entry is resolved, the second fails, the entry of the
\* next yield is left as it was.
C5_Witness ==
    /\ ResolverRan
    /\ pc = "fatal"
    /\ err = IDNotFound("i2")
    /\ Len(rs0) = 1
    /\ rs0[1].Ingredients = <<[ID |-> "i1", Name |-> "Egg"]>>
    /\ Len(rs0[1].Yields) = 2
    /\ Len(rs0[1].Yields[1].Ingredients) = 2
    /\ Len(rs0[1].Yields[2].Ingredients) = 1
    /\ rs0[1].Yields[1].Ingredients[1].ID = "i1"
    /\ rs0[1].Yields[1].Ingredients[2].ID = "i2"
    /\ rs0[1].Yields[2].Ingredients[1].ID = "i1"
    /\ rs[1].Yields[1].Ingredients[1].ID = "Egg"
    /\ rs[1].Yields[1].Ingredients[2].ID = "i2"
    /\ rs[1].Yields[2].Ingredients[1].ID = "i1"

\* C6: an entry is only ever given a Name its own recipe's ingredient list
\* has for its ID, and an entry whose ID only another recipe's list has
\* makes the call fail with that ID.
C6_OwnRecipeOnly ==
    ResolverRan
        => /\ SameShape(rs, rs0)
           /\ \A q \in Positions(rs0) :
                \/ EntryAt(rs, q).ID = EntryAt(rs0, q).ID
                \/ \E k \in 1..Len(rs0[q[1]].Ingredients) :
                     /\ rs0[q[1]].Ingredients[k].ID = EntryAt(rs0, q).ID
                     /\ rs0[q[1]].Ingredients[k].Name = EntryAt(rs, q).ID
           /\ IF Dangling(rs0) = {} THEN err = Nil
              ELSE err \in {IDNotFound(EntryAt(rs0, q).ID) : q \in Dangling(rs0)}

\* C6's case: both recipes have an ingredient i1, under different names, and
\* each recipe's entry gets its own recipe's name.
C6_Witness ==
    /\ ResolverRan
    /\ err = Nil
    /\ Len(rs0) = 2
    /\ rs0[1].Ingredients = <<[ID |-> "i1", Name |-> "Egg"]>>
    /\ rs0[2].Ingredients = <<[ID |-> "i1", Name |-> "i2"]>>
    /\ Len(rs0[1].Yields) = 1
    /\ Len(rs0[2].Yields) = 1
    /\ rs0[1].Yields[1].Ingredients = <<[ID |-> "i1", Amount |-> 2, Unit |-> "pcs"]>>
    /\ rs0[2].Yields[1].Ingredients = <<[ID |-> "i1", Amount |-> 2, Unit |-> "pcs"]>>
    /\ rs[1].Yields[1].Ingredients[1].ID = "Egg"
    /\ rs[2].Yields[1].Ingredients[1].ID = "i2"


\* A batch with the ID of every IngredientYield entry blanked
BlankEntries(entries) ==
    [i \in 1..Len(entries) |-> [entries[i] EXCEPT !.ID = ""]]

BlankYields(yields) ==
    [y \in 1..Len(yields) |->
        [yields[y] EXCEPT !.Ingredients = BlankEntries(yields[y].Ingredients)]]

BlankBatch(batch) ==
    [r \in 1..Len(batch) |->
        [batch[r] EXCEPT !.Yields = BlankYields(batch[r].Yields)]]

\* C13: a call, failed or not, leaves the batch as it was but for the IDs of
\* its IngredientYield entries: recipes, ingredient lists, yields, entries,
\* amounts and units are the same, in the same number and order.
C13_OnlyYieldIDs ==
    ResolverRan => BlankBatch(rs) = BlankBatch(rs0)

\* C13's case: a call on two recipes that rewrote an entry of the first and
\* failed in the second.
C13_Witness ==
    /\ ResolverRan
    /\ err # Nil
    /\ Len(rs0) = 2
    /\ rs[1] # rs0[1]
    /\ rs0[1].Ingredients # <<>>
    /\ Len(rs0[2].Yields) = 2
    /\ Len(rs0[2].Yields[2].Ingredients) = 2

NamesOf(ingreds) == {ingreds[k].Name : k \in 1..Len(ingreds)}

\* Every entry of after holds the Name of the first ingredient of its own
\* recipe whose ID the entry of before held
LookedUpOnce(before, after) ==
    /\ SameShape(after, before)
    /\ \A q \in Positions(before) :
         IsFirstName(EntryAt(after, q).ID, EntryAt(before, q).ID,
                     before[q[1]].Ingredients)

\* C14: a call looks each entry up once, also when the Name it finds is the
\* ID of another ingredient; a second call on the batch of a call that
\* succeeded looks the names up as IDs: it succeeds exactly when every name
\* is the ID of an ingredient of its recipe, and fails otherwise with the
\* not-found error of the first name that is none.
C14_NotIdempotent ==
    /\ (Resolves >= 1 /\ err = Nil) => LookedUpOnce(rs0, rs)
    /\ Resolves = 2
           => /\ \A q \in Positions(rs0) :
                    EntryAt(rs0, q).ID \in NamesOf(rs0[q[1]].Ingredients)
              /\ (err = Nil) <=> (Dangling(rs0) = {})
              /\ err # Nil
                    => err = IDNotFound(EntryAt(rs0, FirstDangling(rs0)).ID)

\* C14's case: the first call left the name "i2" where a second lookup would
\* have given "Egg"; the second call turned it into "Egg" and then failed at
\* the name "Egg" of the second recipe, which is no ID there.
C14_Witness ==
    /\ Resolves = 2
    /\ err = IDNotFound("Egg")
    /\ Len(rs0) = 2
    /\ rs0[1].Ingredients = <<[ID |-> "i1", Name |-> "i2"],
                              [ID |-> "i2", Name |-> "Egg"]>>
    /\ Len(rs0[1].Yields) = 1
    /\ Len(rs0[1].Yields[1].Ingredients) = 1
    /\ rs0[1].Yields[1].Ingredients[1].ID = "i2"
    /\ rs[1].Yields[1].Ingredients[1].ID = "Egg"
    /\ Len(rs0[2].Yields) = 1
    /\ Len(rs0[2].Yields[1].Ingredients) = 1
    /\ rs0[2].Yields[1].Ingredients[1].ID = "Egg"
    /\ rs[2].Yields[1].Ingredients[1].ID = "Egg"

====
